---- MODULE Spec2Model ----
(***************************************************************************)
(* Model of the two documentation-pipeline scripts of higher-kinded-j:     *)
(*   .github/scripts/update_versions.py   (version registry updater)       *)
(*   .github/scripts/generate_sitemap.py  (sitemap builder)                *)
(*                                                                         *)
(* Python strings that the code inspects (version strings, file names,     *)
(* URLs) are sequences of one-character strings, so that lstrip, split,    *)
(* int(), endswith, `in` and html.escape are computed character by         *)
(* character.  Strings the code only copies (labels) are TLA+ strings.     *)
(* A nullable value is a sequence of length at most one: None is << >>     *)
(* and a present value x is <<x>>.                                         *)
(***************************************************************************)
EXTENDS Integers, Sequences, FiniteSets, TLC

VARIABLES
    \* versions.json on disk (update_versions.py)
    latest, stable, versions,
    \* wall clock read by datetime.now; the arguments of the last call, the
    \* time it read, and whether the version was already recorded
    now, lastOp,
    \* one call of parse_version: argument and returned key
    version_string, key,
    \* one run of generate_sitemap: the tree under start_dir, the base_url
    \* argument, the local base_url after line 14-15, the <url> entries written
    tree, base_arg, base_url, sitemap

regVars  == <<latest, stable, versions, now, lastOp>>
parseVars == <<version_string, key>>
mapVars  == <<tree, base_arg, base_url, sitemap>>
vars == <<latest, stable, versions, now, lastOp, version_string, key,
          tree, base_arg, base_url, sitemap>>

----------------------------------------------------------------------------
\* Bounds of the model

\* longest version string handed to parse_version on its own
MaxLen == 6
\* last value of the wall clock
MaxTime == 1
\* largest number of files under start_dir
MaxFiles == 3

----------------------------------------------------------------------------
\* Nullable values

None == << >>

Some(x) == <<x>>

Min(a, b) == IF a <= b THEN a ELSE b

----------------------------------------------------------------------------
\* Python str operations, on sequences of characters

\* s.endswith(suffix)
EndsWith(s, suffix) ==
    /\ Len(suffix) <= Len(s)
    /\ SubSeq(s, Len(s) - Len(suffix) + 1, Len(s)) = suffix

\* p in s  (substring test)
Contains(s, p) ==
    \E i \in 1..(Len(s) - Len(p) + 1) : SubSeq(s, i, i + Len(p) - 1) = p

\* s.lstrip(c): every leading occurrence of c is removed
RECURSIVE LStrip(_, _)
LStrip(s, c) ==
    IF s # << >> /\ s[1] = c THEN LStrip(Tail(s), c) ELSE s

\* s.rstrip(c): every trailing occurrence of c is removed
RECURSIVE RStrip(_, _)
RStrip(s, c) ==
    IF s # << >> /\ s[Len(s)] = c THEN RStrip(SubSeq(s, 1, Len(s) - 1), c) ELSE s

\* the pieces of s between occurrences of c, cur being the piece begun
RECURSIVE SplitFrom(_, _, _)
SplitFrom(s, c, cur) ==
    IF s = << >> THEN <<cur>>
    ELSE IF s[1] = c THEN <<cur>> \o SplitFrom(Tail(s), c, << >>)
    ELSE SplitFrom(Tail(s), c, Append(cur, s[1]))

\* s.split(c): the list of the pieces between occurrences of c; never empty
Split(s, c) == SplitFrom(s, c, << >>)

\* c.join(parts)
RECURSIVE Join(_, _)
Join(parts, c) ==
    IF parts = << >> THEN << >>
    ELSE IF Len(parts) = 1 THEN parts[1]
    ELSE parts[1] \o <<c>> \o Join(Tail(parts), c)

\* code points of the characters that occur in the URLs of the model; str
\* comparison in sorted() is by code point
CodePoint(c) ==
    CASE c = "\"" -> 34 [] c = "#" -> 35 [] c = "&" -> 38 [] c = "'" -> 39
      [] c = "-" -> 45 [] c = "." -> 46 [] c = "/" -> 47 [] c = "0" -> 48
      [] c = "1" -> 49 [] c = "2" -> 50 [] c = "4" -> 52 [] c = "5" -> 53
      [] c = "7" -> 55 [] c = "9" -> 57 [] c = ":" -> 58 [] c = ";" -> 59
      [] c = "<" -> 60 [] c = ">" -> 62 [] c = "_" -> 95 [] c = "a" -> 97
      [] c = "b" -> 98 [] c = "c" -> 99 [] c = "d" -> 100 [] c = "e" -> 101
      [] c = "f" -> 102 [] c = "g" -> 103 [] c = "h" -> 104 [] c = "i" -> 105
      [] c = "k" -> 107 [] c = "l" -> 108 [] c = "m" -> 109 [] c = "n" -> 110
      [] c = "o" -> 111 [] c = "p" -> 112 [] c = "q" -> 113 [] c = "r" -> 114
      [] c = "s" -> 115 [] c = "t" -> 116 [] c = "u" -> 117 [] c = "v" -> 118
      [] c = "w" -> 119 [] c = "x" -> 120

\* Python's a < b on str: the first differing character decides, and a
\* proper prefix is smaller
StrLess(a, b) ==
    \E k \in 1..(Min(Len(a), Len(b)) + 1) :
        /\ \A i \in 1..(k - 1) : a[i] = b[i]
        /\ \/ k > Len(a) /\ k <= Len(b)
           \/ k <= Len(a) /\ k <= Len(b) /\ CodePoint(a[k]) < CodePoint(b[k])

Digits == {"0", "1", "2", "3", "4", "5", "6", "7", "8", "9"}

DigitVal(c) ==
    CASE c = "0" -> 0 [] c = "1" -> 1 [] c = "2" -> 2 [] c = "3" -> 3
      [] c = "4" -> 4 [] c = "5" -> 5 [] c = "6" -> 6 [] c = "7" -> 7
      [] c = "8" -> 8 [] c = "9" -> 9

\* the part of an int() literal after its optional sign
Unsigned(p) == IF p # << >> /\ p[1] \in {"-", "+"} THEN Tail(p) ELSE p

\* int(p) succeeds: an optional sign, then digits, single underscores allowed
\* between digits.  (Surrounding whitespace, which int() also accepts, is
\* not in any alphabet used here.)
IsIntLiteral(p) ==
    LET u == Unsigned(p) IN
    /\ u # << >>
    /\ \A i \in 1..Len(u) : u[i] \in Digits \cup {"_"}
    /\ u[1] \in Digits
    /\ u[Len(u)] \in Digits
    /\ \A i \in 1..(Len(u) - 1) : ~(u[i] = "_" /\ u[i + 1] = "_")

RECURSIVE DecimalValue(_, _)
DecimalValue(u, acc) ==
    IF u = << >> THEN acc
    ELSE IF u[1] = "_" THEN DecimalValue(Tail(u), acc)
    ELSE DecimalValue(Tail(u), 10 * acc + DigitVal(u[1]))

\* the value of int(p) when it succeeds
IntValue(p) ==
    IF p # << >> /\ p[1] = "-" THEN 0 - DecimalValue(Unsigned(p), 0)
    ELSE DecimalValue(Unsigned(p), 0)

----------------------------------------------------------------------------
\* update_versions.py: parse_version

\* parts[:3]
FirstThree(parts) == SubSeq(parts, 1, Min(3, Len(parts)))

\* line 46 and the slice of line 48
VersionParts(s) == FirstThree(Split(LStrip(s, "v"), "."))

\* some int(p) of the generator raises ValueError
SomeIntRaises(parts) == \E i \in 1..Len(parts) : ~IsIntLiteral(parts[i])

\* parse_version takes the except branch
RaisesValueError(s) == SomeIntRaises(VersionParts(s))

FallbackKey == <<0, 0, 0>>

\* line 48, or line 51 when it raises
KeyOfParts(parts) ==
    IF SomeIntRaises(parts) THEN FallbackKey
    ELSE [i \in 1..Len(parts) |-> IntValue(parts[i])]

parse_version(s) == KeyOfParts(VersionParts(s))

\* Python's a < b on tuples of integers: the first differing component
\* decides, and a proper prefix is smaller
TupleLess(a, b) ==
    \E k \in 1..(Min(Len(a), Len(b)) + 1) :
        /\ \A i \in 1..(k - 1) : a[i] = b[i]
        /\ \/ k > Len(a) /\ k <= Len(b)
           \/ k <= Len(a) /\ k <= Len(b) /\ a[k] < b[k]

----------------------------------------------------------------------------
\* update_versions.py: the registry document and update_versions_file

\* the literal compared with --version on line 60
LATEST == <<"l", "a", "t", "e", "s", "t">>

V_0_1_9 == <<"v", "0", ".", "1", ".", "9">>
V_0_1_10 == <<"v", "0", ".", "1", ".", "1", "0">>
V_0_0_0 == <<"v", "0", ".", "0", ".", "0">>
V_BANANA == <<"b", "a", "n", "a", "n", "a">>

\* values of --version and --version-label tried by the model
ReleaseVersions == {V_0_1_9, V_0_1_10, V_0_0_0, V_BANANA}

VersionArgs == ReleaseVersions \cup {LATEST}

LabelArgs == {"A", "B"}

\* load_versions when versions.json does not exist
DefaultLatest ==
    [path |-> "/latest/", label |-> "Latest (Snapshot)",
     version |-> "main", updated |-> None]

\* as UpdateLatest, but the label is also written to the version field
UpdateLatestAndVersion(l, current_time, version_label) ==
    [l EXCEPT !.updated = Some(current_time), !.label = version_label,
              !.version = version_label]

\* lines 62-63
UpdateLatest(l, current_time, version_label) ==
    [l EXCEPT !.updated = Some(current_time), !.label = version_label]

\* lines 66-71
VersionEntry(version, version_label, current_time) ==
    [version |-> version,
     path |-> <<"/">> \o version \o <<"/">>,
     label |-> version_label,
     releaseDate |-> current_time]

\* as RemoveExisting, but nothing is removed
RemoveNothing(vs, version) == vs

\* as RemoveExisting, but records are matched by their parsed key
RemoveSameKey(vs, version) ==
    LET Keep(v) == parse_version(v.version) # parse_version(version)
    IN  SelectSeq(vs, Keep)

\* line 74
RemoveExisting(vs, version) ==
    LET Keep(v) == v.version # version IN SelectSeq(vs, Keep)

\* line 77
AppendEntry(vs, entry) == Append(vs, entry)

\* one step of the stable sort of line 80, on pairs of a key and a record:
\* e goes before the first pair whose key is smaller than its own, so behind
\* every pair of equal key
RECURSIVE InsertByKey(_, _)
InsertByKey(sorted, e) ==
    IF sorted = << >> THEN <<e>>
    ELSE IF TupleLess(sorted[1].key, e.key) THEN <<e>> \o sorted
         ELSE <<sorted[1]>> \o InsertByKey(Tail(sorted), e)

RECURSIVE SortFrom(_, _)
SortFrom(sorted, rest) ==
    IF rest = << >> THEN sorted
    ELSE SortFrom(InsertByKey(sorted, rest[1]), Tail(rest))

RECURSIVE InsertByText(_, _)
InsertByText(sorted, e) ==
    IF sorted = << >> THEN <<e>>
    ELSE IF StrLess(sorted[1].version, e.version) THEN <<e>> \o sorted
         ELSE <<sorted[1]>> \o InsertByText(Tail(sorted), e)

RECURSIVE SortTextFrom(_, _)
SortTextFrom(sorted, rest) ==
    IF rest = << >> THEN sorted
    ELSE SortTextFrom(InsertByText(sorted, rest[1]), Tail(rest))

\* as SortNewestFirst, but the key is the version string itself
SortByText(vs) == SortTextFrom(<< >>, vs)

\* the key function of line 80 is applied once to each record
Decorate(vs) ==
    [i \in 1..Len(vs) |-> [key |-> parse_version(vs[i].version), rec |-> vs[i]]]

Undecorate(keyed) == [i \in 1..Len(keyed) |-> keyed[i].rec]

\* line 80: list.sort(key=parse_version of the version, reverse=True), a
\* stable sort: records of equal key keep their relative order
SortNewestFirst(vs) == Undecorate(SortFrom(<< >>, Decorate(vs)))

\* as StablePointer, but taken from the other end of the list
StablePointerLast(vs, old) == IF vs # << >> THEN Some(vs[Len(vs)].version) ELSE old

\* lines 83-84
StablePointer(vs, old) == IF vs # << >> THEN Some(vs[1].version) ELSE old

\* a record for this version is in the list
HasVersion(vs, version) == \E i \in 1..Len(vs) : vs[i].version = version

\* lines 54-89: read versions.json, apply one update, write it back
update_versions_file(version, version_label) ==
    \E current_time \in now..Min(now + 1, MaxTime) :
        /\ now' = current_time
        /\ lastOp' = Some([version |-> version, label |-> version_label,
                           time |-> current_time,
                           existed |-> HasVersion(versions, version)])
        /\ IF version = LATEST
           THEN /\ latest' = UpdateLatest(latest, current_time, version_label)
                /\ UNCHANGED <<stable, versions>>
           ELSE /\ versions' = SortNewestFirst(
                                AppendEntry(
                                    RemoveExisting(versions, version),
                                    VersionEntry(version, version_label,
                                                 current_time)))
                /\ stable' = StablePointer(versions', stable)
                /\ UNCHANGED latest
        /\ UNCHANGED <<parseVars, mapVars>>

----------------------------------------------------------------------------
\* generate_sitemap.py

HTML_EXT == <<".", "h", "t", "m", "l">>

NOT_FOUND_HTML == <<"4", "0", "4", ".", "h", "t", "m", "l">>

PRINT_HTML == <<"p", "r", "i", "n", "t", ".", "h", "t", "m", "l">>

INDEX_HTML == <<"i", "n", "d", "e", "x", ".", "h", "t", "m", "l">>

HOME_HTML == <<"h", "o", "m", "e", ".", "h", "t", "m", "l">>

\* line 19
excluded_files == {NOT_FOUND_HTML, PRINT_HTML}

\* lines 62-64
KeySellingPoints ==
    {<<"e", "f", "f", "e", "c", "t", "/", "c", "h", "_", "i", "n", "t", "r", "o", ".", "h", "t", "m", "l">>,
     <<"e", "f", "f", "e", "c", "t", "/", "e", "f", "f", "e", "c", "t", "_", "p", "a", "t", "h", "_", "o", "v", "e", "r", "v", "i", "e", "w", ".", "h", "t", "m", "l">>,
     <<"o", "p", "t", "i", "c", "s", "/", "o", "p", "t", "i", "c", "s", "_", "i", "n", "t", "r", "o", ".", "h", "t", "m", "l">>,
     <<"o", "p", "t", "i", "c", "s", "/", "f", "o", "c", "u", "s", "_", "d", "s", "l", ".", "h", "t", "m", "l">>,
     <<"e", "f", "f", "e", "c", "t", "/", "f", "o", "c", "u", "s", "_", "i", "n", "t", "e", "g", "r", "a", "t", "i", "o", "n", ".", "h", "t", "m", "l">>}

\* the first fragment of line 67
CORE_CONCEPTS_HTML == <<"c", "o", "r", "e", "-", "c", "o", "n", "c", "e", "p", "t", "s", ".", "h", "t", "m", "l">>

\* lines 67-68
CoreDocumentation ==
    {CORE_CONCEPTS_HTML,
     <<"u", "s", "a", "g", "e", "-", "g", "u", "i", "d", "e", ".", "h", "t", "m", "l">>,
     <<"h", "k", "t", "_", "i", "n", "t", "r", "o", "d", "u", "c", "t", "i", "o", "n", ".", "h", "t", "m", "l">>,
     <<"t", "u", "t", "o", "r", "i", "a", "l", "s", "_", "i", "n", "t", "r", "o", ".", "h", "t", "m", "l">>,
     <<"s", "p", "r", "i", "n", "g", "_", "b", "o", "o", "t", "_", "i", "n", "t", "e", "g", "r", "a", "t", "i", "o", "n", ".", "h", "t", "m", "l">>}

SEG_EFFECT == <<"/", "e", "f", "f", "e", "c", "t", "/">>

SEG_OPTICS == <<"/", "o", "p", "t", "i", "c", "s", "/">>

SEG_TUTORIALS == <<"/", "t", "u", "t", "o", "r", "i", "a", "l", "s", "/">>

SEG_HKTS == <<"/", "h", "k", "t", "s", "/">>

\* files that may exist under start_dir, each as the list of the names on
\* its path; the last name is the file, the others are directories
FilePool ==
    {<<<<"i", "n", "d", "e", "x", ".", "h", "t", "m", "l">>>>,
     <<<<"4", "0", "4", ".", "h", "t", "m", "l">>>>,
     <<<<"s", "u", "b">>, <<"p", "r", "i", "n", "t", ".", "h", "t", "m", "l">>>>,
     <<<<"s", "u", "b">>, <<"p", "a", "g", "e", ".", "h", "t", "m", "l">>>>,
     <<<<"c", "o", "r", "e", "-", "c", "o", "n", "c", "e", "p", "t", "s", ".", "h", "t", "m", "l">>>>,
     <<<<"e", "f", "f", "e", "c", "t">>, <<"c", "h", "_", "i", "n", "t", "r", "o", ".", "h", "t", "m", "l">>>>,
     <<<<"o", "p", "t", "i", "c", "s">>, <<"f", "o", "c", "u", "s", "_", "d", "s", "l", ".", "h", "t", "m", "l">>, <<"c", "o", "r", "e", "-", "c", "o", "n", "c", "e", "p", "t", "s", ".", "h", "t", "m", "l">>>>,
     <<<<"e", "f", "f", "e", "c", "t">>, <<"i", "o", ".", "h", "t", "m", "l">>>>,
     <<<<"t", "u", "t", "o", "r", "i", "a", "l", "s">>, <<"t", ".", "h", "t", "m", "l">>>>,
     <<<<"n", "o", "t", "e", "s", ".", "t", "x", "t">>>>,
     <<<<"s", "u", "b">>, <<"a", "&", "b", ".", "h", "t", "m", "l">>>>,
     <<<<"e", "f", "f", "e", "c", "t">>, <<"i", "n", "d", "e", "x", ".", "h", "t", "m", "l">>>>}

\* the trees tried by the model
Trees == {t \in SUBSET FilePool : Cardinality(t) <= MaxFiles}

\* values of base_url tried by the model
BaseUrlArgs == {<<"x">>, <<"x", "/">>, <<"x", "/", "/">>}

\* values of datetime.now().strftime('%Y-%m-%d')
Dates == {"2026-01-01", "2026-01-02"}

\* lines 14-15
NormalizeBase(b) == IF ~EndsWith(b, <<"/">>) THEN b \o <<"/">> ELSE b

\* line 22-23: os.walk visits every directory once and lists each of its
\* files once; the order of the visit is the file system's
RECURSIVE Walk(_)
Walk(t) ==
    IF t = {} THEN << >>
    ELSE LET f == CHOOSE x \in t : TRUE IN <<f>> \o Walk(t \ {f})

\* as Qualifies, but without the exclusion list
QualifiesAnyHtml(file) == EndsWith(file, HTML_EXT)

\* line 24, on the name of the file
Qualifies(file) == EndsWith(file, HTML_EXT) /\ file \notin excluded_files

\* lines 29-38: relpath joins the names with the separator; the separator is
\* replaced by '/', the path split on '/' and joined again onto the base
FileUrl(base, path) ==
    LET relative_path == Join(path, "/")
        url_path_parts == Split(relative_path, "/")
    IN  base \o Join(url_path_parts, "/")

\* lines 22-43
RECURSIVE CollectUrls(_, _)
CollectUrls(walk, base) ==
    IF walk = << >> THEN << >>
    ELSE LET path == walk[1]
             rest == CollectUrls(Tail(walk), base)
         IN  IF Qualifies(path[Len(path)])
             THEN <<FileUrl(base, path)>> \o rest
             ELSE rest

RECURSIVE InsertUrl(_, _)
InsertUrl(sorted, u) ==
    IF sorted = << >> THEN <<u>>
    ELSE IF StrLess(u, sorted[1]) THEN <<u>> \o sorted
    ELSE <<sorted[1]>> \o InsertUrl(Tail(sorted), u)

\* line 52: sorted(urls)
RECURSIVE SortedUrls(_)
SortedUrls(urls) ==
    IF urls = << >> THEN << >>
    ELSE InsertUrl(SortedUrls(SubSeq(urls, 1, Len(urls) - 1)), urls[Len(urls)])

\* html.escape with quote=True
RECURSIVE html_escape(_)
html_escape(u) ==
    IF u = << >> THEN << >>
    ELSE (CASE u[1] = "&" -> <<"&", "a", "m", "p", ";">>
            [] u[1] = "<" -> <<"&", "l", "t", ";">>
            [] u[1] = ">" -> <<"&", "g", "t", ";">>
            [] u[1] = "\"" -> <<"&", "q", "u", "o", "t", ";">>
            [] u[1] = "'" -> <<"&", "#", "x", "2", "7", ";">>
            [] OTHER -> <<u[1]>>) \o html_escape(Tail(u))

\* the conditions of lines 59, 62, 67, 71 and 74
IsLanding(url, base) ==
    \/ EndsWith(url, INDEX_HTML)
    \/ EndsWith(url, HOME_HTML)
    \/ url = RStrip(base, "/")

IsKeySellingPoint(url) == \E p \in KeySellingPoints : Contains(url, p)

IsCoreDocumentation(url) == \E p \in CoreDocumentation : Contains(url, p)

IsEffectOrOptics(url) == Contains(url, SEG_EFFECT) \/ Contains(url, SEG_OPTICS)

IsTutorial(url) == Contains(url, SEG_TUTORIALS) \/ Contains(url, SEG_HKTS)

\* as Priority, but the path-segment rules are tried before the fragment lists
PrioritySegmentsFirst(url, base) ==
    IF IsLanding(url, base) THEN "1.0"
    ELSE IF IsEffectOrOptics(url) THEN "0.7"
    ELSE IF IsTutorial(url) THEN "0.6"
    ELSE IF IsKeySellingPoint(url) THEN "0.9"
    ELSE IF IsCoreDocumentation(url) THEN "0.8"
    ELSE "0.5"

\* lines 59-77
Priority(url, base) ==
    IF IsLanding(url, base) THEN "1.0"
    ELSE IF IsKeySellingPoint(url) THEN "0.9"
    ELSE IF IsCoreDocumentation(url) THEN "0.8"
    ELSE IF IsEffectOrOptics(url) THEN "0.7"
    ELSE IF IsTutorial(url) THEN "0.6"
    ELSE "0.5"

\* lines 53-78: one <url> element
UrlEntry(url, base, today) ==
    [url |-> url,
     loc |-> html_escape(url),
     lastmod |-> today,
     changefreq |-> "weekly",
     priority |-> Priority(url, base)]

\* lines 5-87: one run over the tree under start_dir
generate_sitemap(b) ==
    /\ sitemap = None
    /\ \E today \in Dates :
        LET base == NormalizeBase(b)
            urls == SortedUrls(CollectUrls(Walk(tree), base))
        IN  /\ base_arg' = Some(b)
            /\ base_url' = Some(base)
            /\ sitemap' = Some([i \in 1..Len(urls) |-> UrlEntry(urls[i], base, today)])
    /\ UNCHANGED <<tree, regVars, parseVars>>

----------------------------------------------------------------------------
\* Specification of one call of parse_version on an arbitrary short string

ParseAlphabet == {"v", ".", "0", "1", "b", "-"}

ParseInputs == UNION {[1..n -> ParseAlphabet] : n \in 0..MaxLen}

\* lines 36-51, called on version_string
call_parse_version ==
    /\ key = None
    /\ key' = Some(parse_version(version_string))
    /\ UNCHANGED <<version_string, regVars, mapVars>>

----------------------------------------------------------------------------
\* Initial states and specifications

RegIdle ==
    /\ latest = DefaultLatest
    /\ stable = None
    /\ versions = << >>
    /\ now = 0
    /\ lastOp = None

ParseIdle == version_string = << >> /\ key = None

MapIdle == tree = {} /\ base_arg = None /\ base_url = None /\ sitemap = None

\* the registry: versions.json does not exist yet
Init == RegIdle /\ ParseIdle /\ MapIdle

Next == \E version \in VersionArgs, version_label \in LabelArgs :
            update_versions_file(version, version_label)

Spec == Init /\ [][Next]_vars

\* parse_version alone
InitParse ==
    /\ RegIdle /\ MapIdle
    /\ version_string \in ParseInputs
    /\ key = None

NextParse == call_parse_version

SpecParse == InitParse /\ [][NextParse]_vars

\* generate_sitemap alone
InitSitemap ==
    /\ RegIdle /\ ParseIdle
    /\ tree \in Trees
    /\ base_arg = None /\ base_url = None /\ sitemap = None

NextSitemap == \E b \in BaseUrlArgs : generate_sitemap(b)

SpecSitemap == InitSitemap /\ [][NextSitemap]_vars

----------------------------------------------------------------------------
\* Properties of the registry (specification Spec)

\* the last call was a release-mode update
LastWasRelease == lastOp # None /\ lastOp[1].version # LATEST

\* the last call was a latest-snapshot update
LastWasLatest == lastOp # None /\ lastOp[1].version = LATEST

\* the position of the record for a version that is in the list
IndexOf(version) == CHOOSE i \in 1..Len(versions) : versions[i].version = version

\* C1: from the default document and after any sequence of updates in either
\* mode, stable is the version of the first element of versions, and is null
\* when versions is empty.
C1_StableIsFirst ==
    IF versions = << >> THEN stable = None
    ELSE stable = Some(versions[1].version)

\* a latest-snapshot update made while several releases are recorded
C1_Witness ==
    /\ LastWasLatest
    /\ Len(versions) >= 2
    /\ stable = Some(V_0_1_10)

\* C2: versions holds at most one record per version string, and after a
\* release-mode update exactly one record carries the updated version, with
\* the label just supplied.
C2_OneRecordPerVersion ==
    /\ \A i, j \in 1..Len(versions) :
           versions[i].version = versions[j].version => i = j
    /\ LastWasRelease =>
           /\ Cardinality({i \in 1..Len(versions) :
                              versions[i].version = lastOp[1].version}) = 1
           /\ versions[IndexOf(lastOp[1].version)].label = lastOp[1].label

\* a version already recorded has been updated again, with label B
C2_Witness ==
    /\ LastWasRelease
    /\ lastOp[1].existed
    /\ lastOp[1].label = "B"
    /\ Len(versions) >= 2

\* C3: after every release-mode update versions is in descending order of the
\* parsed key of its records, compared number by number: v0.1.10 has the key
\* (0,1,10) and stands before v0.1.9, whose key is (0,1,9).
C3_SortedNewestFirst ==
    /\ \A i, j \in 1..Len(versions) :
           i < j => ~TupleLess(parse_version(versions[i].version),
                               parse_version(versions[j].version))
    /\ parse_version(V_0_1_10) = <<0, 1, 10>>
    /\ parse_version(V_0_1_9) = <<0, 1, 9>>
    /\ HasVersion(versions, V_0_1_10) /\ HasVersion(versions, V_0_1_9)
           => IndexOf(V_0_1_10) < IndexOf(V_0_1_9)

\* v0.1.10 was released while v0.1.9 and another version were recorded
C3_Witness ==
    /\ LastWasRelease
    /\ lastOp[1].version = V_0_1_10
    /\ HasVersion(versions, V_0_1_9)
    /\ Len(versions) >= 3

\* C4: a latest-snapshot update sets latest.updated to the time read and
\* latest.label to the label given, and leaves versions, stable, latest.path
\* and latest.version as they were.
C4_LatestFrame ==
    [][ (lastOp' # None /\ lastOp'[1].version = LATEST) =>
            /\ latest'.updated = Some(lastOp'[1].time)
            /\ latest'.label = lastOp'[1].label
            /\ latest'.path = latest.path
            /\ latest'.version = latest.version
            /\ versions' = versions
            /\ stable' = stable ]_vars

\* a latest-snapshot update has relabelled the snapshot while releases exist
C4_Witness ==
    /\ LastWasLatest
    /\ latest.label = "B"
    /\ latest.updated = Some(lastOp[1].time)
    /\ versions # << >>

\* C6 (as claimed): a record whose version string cannot be parsed stands
\* after every record whose version string can, in whatever order the
\* records were added.
C6_UnparseableLast ==
    \A i, j \in 1..Len(versions) :
        (RaisesValueError(versions[i].version)
            /\ ~RaisesValueError(versions[j].version)) => j < i

\* C10: a release-mode update for x keeps every record of another version
\* with all its fields, leaves latest unchanged, and makes versions one
\* longer when x was absent and as long as before when x was present.
C10_ReleaseFrame ==
    [][ (lastOp' # None /\ lastOp'[1].version # LATEST) =>
            LET x == lastOp'[1].version IN
            /\ \A i \in 1..Len(versions) :
                   versions[i].version # x =>
                       \E j \in 1..Len(versions') : versions'[j] = versions[i]
            /\ latest' = latest
            /\ Len(versions') =
                   IF HasVersion(versions, x) THEN Len(versions)
                   ELSE Len(versions) + 1 ]_vars

\* both cases have happened: a new version joined two others, and a recorded
\* version was released again
C10_Witness ==
    /\ LastWasRelease
    /\ Len(versions) >= 3
    /\ \/ lastOp[1].existed /\ lastOp[1].time > 0
       \/ ~lastOp[1].existed /\ lastOp[1].version = V_0_0_0

----------------------------------------------------------------------------
\* Properties of parse_version (specification SpecParse)

\* the key the claim describes: one leading v removed, the rest split on
\* '.', three integers from the first three pieces, and (0,0,0) when a piece
\* is not a number or there are fewer than three pieces
ClaimedKey(s) ==
    LET stripped == IF s # << >> /\ s[1] = "v" THEN Tail(s) ELSE s
        parts == Split(stripped, ".")
    IN  IF Len(parts) < 3 \/ \E i \in 1..3 : ~IsIntLiteral(parts[i])
        THEN <<0, 0, 0>>
        ELSE <<IntValue(parts[1]), IntValue(parts[2]), IntValue(parts[3])>>

\* C5 (as claimed): for every version string parse_version returns the
\* 3-tuple of the first three pieces after one leading v is removed, and
\* (0,0,0) on a non-numeric piece, an empty string or fewer than three pieces.
C5_ParseAsClaimed == key # None => key[1] = ClaimedKey(version_string)

----------------------------------------------------------------------------
\* Properties of generate_sitemap (specification SpecSitemap)

\* the name of the file ends in .html and is neither 404.html nor print.html
ShouldBeListed(path) ==
    LET name == path[Len(path)] IN
    /\ EndsWith(name, HTML_EXT)
    /\ name # NOT_FOUND_HTML
    /\ name # PRINT_HTML

\* the <loc> text of the file at this path
LocOf(path) == html_escape(base_url[1] \o Join(path, "/"))

\* C7: the sitemap has exactly one entry for every file, at any depth, whose
\* name ends in .html and is not 404.html or print.html, and no entry for an
\* excluded file or for a file that does not end in .html.
C7_ExactlyTheHtmlFiles ==
    sitemap # None =>
        /\ \A path \in tree :
               ShouldBeListed(path) =>
                   Cardinality({i \in 1..Len(sitemap[1]) :
                                   sitemap[1][i].loc = LocOf(path)}) = 1
        /\ \A i \in 1..Len(sitemap[1]) :
               \E path \in tree :
                   ShouldBeListed(path) /\ sitemap[1][i].loc = LocOf(path)

\* a run over a tree with an excluded file in a subdirectory, a file that is
\* not HTML, and a listed file in a subdirectory
C7_Witness ==
    /\ sitemap # None
    /\ <<<<"s", "u", "b">>, PRINT_HTML>> \in tree
    /\ \E path \in tree : ~EndsWith(path[Len(path)], HTML_EXT)
    /\ \E path \in tree : Len(path) >= 2 /\ ShouldBeListed(path)
    /\ Len(sitemap[1]) = 1

\* the first rule, as the claim states it
EndsInLanding(url) == EndsWith(url, INDEX_HTML) \/ EndsWith(url, HOME_HTML)

\* the priority of the first matching rule in the claimed order
FirstMatch(url) ==
    CASE EndsInLanding(url) -> "1.0"
      [] ~EndsInLanding(url) /\ IsKeySellingPoint(url) -> "0.9"
      [] ~EndsInLanding(url) /\ ~IsKeySellingPoint(url)
            /\ IsCoreDocumentation(url) -> "0.8"
      [] ~EndsInLanding(url) /\ ~IsKeySellingPoint(url)
            /\ ~IsCoreDocumentation(url) /\ IsEffectOrOptics(url) -> "0.7"
      [] ~EndsInLanding(url) /\ ~IsKeySellingPoint(url)
            /\ ~IsCoreDocumentation(url) /\ ~IsEffectOrOptics(url)
            /\ IsTutorial(url) -> "0.6"
      [] OTHER -> "0.5"

\* no rule but the default matches
Unrelated(url) ==
    /\ ~EndsInLanding(url)
    /\ ~IsKeySellingPoint(url)
    /\ ~IsCoreDocumentation(url)
    /\ ~IsEffectOrOptics(url)
    /\ ~IsTutorial(url)

\* C8 (as claimed): every URL gets the priority of the first matching rule in
\* the order 1.0, 0.9, 0.8, 0.7, 0.6, 0.5; a URL ending in core-concepts.html
\* always gets 0.8, one ending in index.html always 1.0, an unrelated one 0.5.
C8_PriorityAsClaimed ==
    sitemap # None =>
        \A i \in 1..Len(sitemap[1]) :
            LET e == sitemap[1][i] IN
            /\ e.priority = FirstMatch(e.url)
            /\ EndsWith(e.url, INDEX_HTML) => e.priority = "1.0"
            /\ EndsWith(e.url, CORE_CONCEPTS_HTML)
                   => e.priority = "0.8"
            /\ Unrelated(e.url) => e.priority = "0.5"

\* C8 (amended): every URL gets the priority of the first matching rule in
\* the order 1.0, 0.9, 0.8, 0.7, 0.6, 0.5; a URL ending in core-concepts.html
\* gets 0.8 unless it contains a key-selling-point fragment, and then 0.9;
\* one ending in index.html always gets 1.0, an unrelated one 0.5.
C8_PriorityFirstMatch ==
    sitemap # None =>
        \A i \in 1..Len(sitemap[1]) :
            LET e == sitemap[1][i] IN
            /\ e.priority = FirstMatch(e.url)
            /\ EndsWith(e.url, INDEX_HTML) => e.priority = "1.0"
            /\ EndsWith(e.url, CORE_CONCEPTS_HTML)
                   => e.priority = (IF IsKeySellingPoint(e.url) THEN "0.9"
                                    ELSE "0.8")
            /\ Unrelated(e.url) => e.priority = "0.5"

\* a sitemap with a core-concepts.html page at 0.8, a key-selling-point page
\* at 0.9 and a page under /effect/ that is neither
C8_Witness ==
    /\ sitemap # None
    /\ \E i \in 1..Len(sitemap[1]) :
           /\ EndsWith(sitemap[1][i].url, <<"/">> \o CORE_CONCEPTS_HTML)
           /\ sitemap[1][i].priority = "0.8"
    /\ \E i \in 1..Len(sitemap[1]) :
           /\ IsKeySellingPoint(sitemap[1][i].url)
           /\ sitemap[1][i].priority = "0.9"
    /\ \E i \in 1..Len(sitemap[1]) :
           /\ IsEffectOrOptics(sitemap[1][i].url)
           /\ sitemap[1][i].priority = "0.7"

\* C9 (as claimed): the base URL used to build the entries ends in exactly
\* one slash, and every URL is that base followed by the relative path of a
\* file, with no doubled slash where they join.
C9_SingleTrailingSlash ==
    sitemap # None =>
        /\ EndsWith(base_url[1], <<"/">>)
        /\ ~EndsWith(base_url[1], <<"/", "/">>)
        /\ \A i \in 1..Len(sitemap[1]) :
               LET url == sitemap[1][i].url
                   n == Len(base_url[1])
               IN  /\ \E path \in tree : url = base_url[1] \o Join(path, "/")
                   /\ ~(n >= 2 /\ url[n - 1] = "/" /\ url[n] = "/")

====
